---- MODULE Spec2Model ----
(***************************************************************************)
(* Model of salt/modules/deb_apache.py: the Debian Apache helpers that     *)
(* observe which sites / mods / confs are enabled (symlinks in the         *)
(* *-enabled directories) and toggle them by running a2ensite, a2dissite,  *)
(* a2enmod, a2dismod, a2enconf and a2disconf.                              *)
(*                                                                         *)
(* Python values are kept apart by tagged records: None, Str(s), List(s),  *)
(* PyInt(i), Exc(e).  A Python dict is a function from its keys.           *)
(***************************************************************************)
EXTENDS Integers, Sequences, FiniteSets, TLC

\* ---------------------------------------------------------------- bounds
\* longest "sites" list a caller passes
MaxSites == 2

\* ------------------------------------------------------- program constants
SITE_AVAILABLE_DIR == "/etc/apache2/sites-available"
SITE_ENABLED_DIR == "/etc/apache2/sites-enabled"
MODS_ENABLED_DIR == "/etc/apache2/mods-enabled"
CONF_ENABLED_DIR == "/etc/apache2/conf-enabled"

\* --------------------------------------------------------- value universe
\* directory entry names that occur on the modelled host
Names == {"default", "000-default", "errors", "000-errors"}
\* artifact names callers pass to the toggles
ArgNames == {"default", "errors"}
\* what an entry of an *-enabled directory can be
Kinds == {"none", "link", "file"}
EnabledDirs == {SITE_ENABLED_DIR, MODS_ENABLED_DIR, CONF_ENABLED_DIR}
\* exit codes and stderr texts the external tools produce
SiteResults == { [retcode |-> 0, stderr |-> ""],
                 [retcode |-> 0, stderr |-> "warning"],
                 [retcode |-> 1, stderr |-> "ERROR: Site does not exist!"] }
RetCodes == {0, 1, 2, 256}
\* the client threads that call into the module
Procs == {"p1", "p2"}

None == [none |-> TRUE]
Str(s) == [str |-> s]
List(s) == [list |-> s]
PyInt(i) == [int |-> i]
Exc(e) == [exc |-> e]

\* Python truthiness of an argument value ("if name:", "if sites:")
Truthy(v) ==
    IF "none" \in DOMAIN v THEN FALSE
    ELSE IF "str" \in DOMAIN v THEN v.str # ""
    ELSE IF "list" \in DOMAIN v THEN Len(v.list) > 0
    ELSE TRUE

SeqsUpTo(S, n) == UNION { [1..k -> S] : k \in 0..n }
Range(s) == { s[i] : i \in 1..Len(s) }

VARIABLES
    avail,       \* entries of sites-available
    enabledDir,  \* enabledDir[dir][entry] \in Kinds
    pc,          \* position of each client in its call
    op,          \* the function each client is executing
    args,        \* the arguments of the call
    command,     \* the local "command" list
    old,         \* the local "old" (before snapshot)
    res,         \* the command runner's result
    new,         \* the local "new" (after snapshot)
    ret,         \* the value returned, or the exception raised
    calls        \* the collaborator calls the client has made, in order

vars == <<avail, enabledDir, pc, op, args, command, old, res, new, ret, calls>>
fs == <<avail, enabledDir>>

\* ------------------------------------------------------------ observation
islink(dir, entry) ==
    entry \in Names /\ enabledDir[dir][entry] = "link"

\* the "000-" variant taken to count for every site name
check_site_enabled_AnyPrefix(site) ==
    IF islink(SITE_ENABLED_DIR, site) THEN TRUE
    ELSE IF islink(SITE_ENABLED_DIR, "000-" \o site) THEN TRUE
    ELSE FALSE

check_site_enabled(site) ==
    IF islink(SITE_ENABLED_DIR, site) THEN TRUE
    ELSE IF site = "default" /\ islink(SITE_ENABLED_DIR, "000-" \o site) THEN TRUE
    ELSE FALSE

listdir_available == avail

\* the keys taken from both directories
list_sites_BothDirs ==
    [site \in listdir_available \cup
               { e \in Names : islink(SITE_ENABLED_DIR, e) } |->
        check_site_enabled(site)]

list_sites ==
    [site \in listdir_available |-> check_site_enabled(site)]

check_mod_enabled(mod) == islink(MODS_ENABLED_DIR, mod)

check_conf_enabled(conf) == islink(CONF_ENABLED_DIR, conf)

\* ------------------------------------------------------------------ diff
Lookup(d, k) == IF k \in DOMAIN d THEN [bool |-> d[k]] ELSE [absent |-> TRUE]

compare_dicts(o, n) ==
    LET keys == DOMAIN o \cup DOMAIN n
        changed == { k \in keys : Lookup(o, k) # Lookup(n, k) }
    IN  [k \in changed |-> [old |-> Lookup(o, k), new |-> Lookup(n, k)]]

\* ret['errors'] = res['stderr']
SetErrors(d, text) ==
    [k \in DOMAIN d \cup {"errors"} |-> IF k = "errors" THEN Str(text) ELSE d[k]]

\* ------------------------------------------------------- command building
RECURSIVE Join(_)
Join(s) ==
    IF Len(s) = 0 THEN ""
    ELSE IF Len(s) = 1 THEN s[1]
    ELSE s[1] \o " " \o Join(Tail(s))

\* the sites joined into one argument
BuildCommand_Joined(exe, name, sites) ==
    LET c1 == <<exe>>
        c2 == IF Truthy(name) THEN Append(c1, name.str) ELSE c1
    IN  IF Truthy(sites) THEN Append(c2, Join(sites.list)) ELSE c2

BuildCommand(exe, name, sites) ==
    LET c1 == <<exe>>
        c2 == IF Truthy(name) THEN Append(c1, name.str) ELSE c1
    IN  IF Truthy(sites) THEN c2 \o sites.list ELSE c2

\* --------------------------------------------------- the external tools
IsEnable(exe) == exe \in {"a2ensite", "a2enmod", "a2enconf"}
ToolDir(exe) ==
    IF exe \in {"a2ensite", "a2dissite"} THEN SITE_ENABLED_DIR
    ELSE IF exe \in {"a2enmod", "a2dismod"} THEN MODS_ENABLED_DIR
    ELSE CONF_ENABLED_DIR

\* the enabled-side entries the tool may touch for one argument
Targets(exe, cmd) ==
    LET named == Range(Tail(cmd)) \cap Names
    IN  named \cup
        (IF ToolDir(exe) = SITE_ENABLED_DIR /\ "default" \in named
         THEN {"000-default"} ELSE {})

\* every directory content the tool can leave behind: it acts on any subset
\* of its targets (it may stop part-way), creating or removing symlinks
ToolEffects(exe, cmd) ==
    LET d == enabledDir[ToolDir(exe)]
        Act(e) == IF IsEnable(exe)
                  THEN (IF d[e] = "none" THEN "link" ELSE d[e])
                  ELSE (IF d[e] = "link" THEN "none" ELSE d[e])
    IN  { [e \in Names |-> IF e \in S THEN Act(e) ELSE d[e]] :
            S \in SUBSET Targets(exe, cmd) }

\* ------------------------------------------------------------ site toggles
SiteToggleBegin(p, exe, name, sites) ==
    /\ pc[p] = "idle"
    /\ op' = [op EXCEPT ![p] = exe]
    /\ args' = [args EXCEPT ![p] = [name |-> name, sites |-> sites]]
    /\ command' = [command EXCEPT ![p] = BuildCommand(exe, name, sites)]
    /\ old' = [old EXCEPT ![p] = list_sites]
    /\ calls' = [calls EXCEPT ![p] = Append(@, [fn |-> "list_sites"])]
    /\ pc' = [pc EXCEPT ![p] = "observed"]
    /\ UNCHANGED <<fs, res, new, ret>>

a2ensite(p, name, sites) == SiteToggleBegin(p, "a2ensite", name, sites)

a2dissite(p, name, sites) == SiteToggleBegin(p, "a2dissite", name, sites)

\* the command run again when it exits non-zero
RunAll_Retry(p) ==
    /\ pc[p] = "observed"
    /\ \E r \in SiteResults, d \in ToolEffects(op[p], command[p]) :
          /\ res' = [res EXCEPT ![p] = r]
          /\ enabledDir' = [enabledDir EXCEPT ![ToolDir(op[p])] = d]
          /\ calls' = [calls EXCEPT ![p] =
                IF r.retcode # 0
                THEN @ \o << [fn |-> "cmd.run_all", cmd |-> command[p]],
                             [fn |-> "cmd.run_all", cmd |-> command[p]] >>
                ELSE Append(@, [fn |-> "cmd.run_all", cmd |-> command[p]])]
    /\ pc' = [pc EXCEPT ![p] = "ran"]
    /\ UNCHANGED <<avail, op, args, command, old, new, ret>>

\* res = __salt__['cmd.run_all'](command, python_shell=False): the tool runs
\* to completion and its exit code and stderr come back
RunAll(p) ==
    /\ pc[p] = "observed"
    /\ calls' = [calls EXCEPT ![p] =
                    Append(@, [fn |-> "cmd.run_all", cmd |-> command[p]])]
    /\ \E r \in SiteResults, d \in ToolEffects(op[p], command[p]) :
          /\ res' = [res EXCEPT ![p] = r]
          /\ enabledDir' = [enabledDir EXCEPT ![ToolDir(op[p])] = d]
    /\ pc' = [pc EXCEPT ![p] = "ran"]
    /\ UNCHANGED <<avail, op, args, command, old, new, ret>>

\* cmd.run_all cannot start the tool: the exception leaves the toggle
RunAllFails(p) ==
    /\ pc[p] = "observed"
    /\ calls' = [calls EXCEPT ![p] =
                    Append(@, [fn |-> "cmd.run_all", cmd |-> command[p]])]
    /\ res' = [res EXCEPT ![p] = Exc("CommandExecutionError")]
    /\ ret' = [ret EXCEPT ![p] = Exc("CommandExecutionError")]
    /\ pc' = [pc EXCEPT ![p] = "raised"]
    /\ UNCHANGED <<fs, op, args, command, old, new>>

SiteToggleFinish(p) ==
    /\ pc[p] = "ran"
    /\ LET n == list_sites
           d == compare_dicts(old[p], n)
       IN  /\ new' = [new EXCEPT ![p] = n]
           /\ ret' = [ret EXCEPT ![p] =
                        IF res[p].retcode # 0
                        THEN SetErrors(d, res[p].stderr) ELSE d]
    /\ calls' = [calls EXCEPT ![p] = Append(@, [fn |-> "list_sites"])]
    /\ pc' = [pc EXCEPT ![p] = "done"]
    /\ UNCHANGED <<fs, op, args, command, old, res>>

\* the caller takes the result; the client is free for its next call
Return(p) ==
    /\ pc[p] \in {"done", "raised"}
    /\ pc' = [pc EXCEPT ![p] = "idle"]
    /\ op' = [op EXCEPT ![p] = "none"]
    /\ args' = [args EXCEPT ![p] = None]
    /\ command' = [command EXCEPT ![p] = <<>>]
    /\ old' = [old EXCEPT ![p] = None]
    /\ res' = [res EXCEPT ![p] = None]
    /\ new' = [new EXCEPT ![p] = None]
    /\ ret' = [ret EXCEPT ![p] = None]
    /\ calls' = [calls EXCEPT ![p] = <<>>]
    /\ UNCHANGED fs

\* ---------------------------------------------------------- initial states
IdleClients ==
    /\ pc = [p \in Procs |-> "idle"]
    /\ op = [p \in Procs |-> "none"]
    /\ args = [p \in Procs |-> None]
    /\ command = [p \in Procs |-> <<>>]
    /\ old = [p \in Procs |-> None]
    /\ res = [p \in Procs |-> None]
    /\ new = [p \in Procs |-> None]
    /\ ret = [p \in Procs |-> None]
    /\ calls = [p \in Procs |-> <<>>]

EmptyDir == [e \in Names |-> "none"]

\* any sites-available, any symlinks in sites-enabled
Init ==
    /\ avail \in SUBSET Names
    /\ \E d \in [Names -> {"none", "link"}] :
          enabledDir = [x \in EnabledDirs |->
                          IF x = SITE_ENABLED_DIR THEN d ELSE EmptyDir]
    /\ IdleClients

NameArgs == {None, Str("")} \cup { Str(n) : n \in ArgNames }
SitesArgs == {None} \cup { List(s) : s \in SeqsUpTo(ArgNames, MaxSites) }

\* one client, calls made one after the other
Next ==
    \/ \E name \in NameArgs, sites \in SitesArgs : a2ensite("p1", name, sites)
    \/ \E name \in NameArgs, sites \in SitesArgs : a2dissite("p1", name, sites)
    \/ RunAll("p1")
    \/ RunAllFails("p1")
    \/ SiteToggleFinish("p1")
    \/ Return("p1")

Spec == Init /\ [][Next]_vars

\* ---------------------------------------------- single-artifact toggles
a2enmod_Status(mod, status) ==
    IF status = 1 THEN Str("Mod " \o mod \o " Not found")
    ELSE IF status = 0 THEN Str("Mod " \o mod \o " enabled")
    ELSE PyInt(status)

\* the "not found" code of a2enmod used for a2dismod
a2dismod_Status_One(mod, status) ==
    IF status = 1 THEN Str("Mod " \o mod \o " Not found")
    ELSE IF status = 0 THEN Str("Mod " \o mod \o " disabled")
    ELSE PyInt(status)

a2dismod_Status(mod, status) ==
    IF status = 256 THEN Str("Mod " \o mod \o " Not found")
    ELSE IF status = 0 THEN Str("Mod " \o mod \o " disabled")
    ELSE PyInt(status)

a2enconf_Status(conf, status) ==
    IF status = 1 THEN Str("Conf " \o conf \o " Not found")
    ELSE IF status = 0 THEN Str("Conf " \o conf \o " enabled")
    ELSE PyInt(status)

a2disconf_Status(conf, status) ==
    IF status = 256 THEN Str("Conf " \o conf \o " Not found")
    ELSE IF status = 0 THEN Str("Conf " \o conf \o " disabled")
    ELSE PyInt(status)

\* the if / elif / else chain of the toggle that runs exe
StatusOf(exe, arg, status) ==
    IF exe = "a2enmod" THEN a2enmod_Status(arg, status)
    ELSE IF exe = "a2dismod" THEN a2dismod_Status(arg, status)
    ELSE IF exe = "a2enconf" THEN a2enconf_Status(arg, status)
    ELSE a2disconf_Status(arg, status)

\* the dict a single-artifact toggle returns
StatusDict(title, key, arg, status) ==
    [k \in {"Name", key, "Status"} |->
        IF k = "Name" THEN Str(title)
        ELSE IF k = key THEN Str(arg)
        ELSE status]

\* status = __salt__['cmd.retcode'](command, python_shell=False), then the
\* dict is filled in and returned
RetcodeReturns(p, exe, arg, title, key) ==
    /\ pc[p] = "idle"
    /\ op' = [op EXCEPT ![p] = exe]
    /\ args' = [args EXCEPT ![p] = Str(arg)]
    /\ command' = [command EXCEPT ![p] = <<exe, arg>>]
    /\ calls' = [calls EXCEPT ![p] =
                    Append(@, [fn |-> "cmd.retcode", cmd |-> <<exe, arg>>])]
    /\ \E status \in RetCodes, d \in ToolEffects(exe, <<exe, arg>>) :
          /\ res' = [res EXCEPT ![p] = PyInt(status)]
          /\ enabledDir' = [enabledDir EXCEPT ![ToolDir(exe)] = d]
          /\ ret' = [ret EXCEPT ![p] =
                        StatusDict(title, key, arg, StatusOf(exe, arg, status))]
    /\ pc' = [pc EXCEPT ![p] = "done"]
    /\ UNCHANGED <<avail, old, new>>

\* cmd.retcode cannot start the tool: "except Exception as e: return e"
RetcodeRaises(p, exe, arg) ==
    /\ pc[p] = "idle"
    /\ op' = [op EXCEPT ![p] = exe]
    /\ args' = [args EXCEPT ![p] = Str(arg)]
    /\ command' = [command EXCEPT ![p] = <<exe, arg>>]
    /\ calls' = [calls EXCEPT ![p] =
                    Append(@, [fn |-> "cmd.retcode", cmd |-> <<exe, arg>>])]
    /\ res' = [res EXCEPT ![p] = Exc("CommandExecutionError")]
    /\ ret' = [ret EXCEPT ![p] = Exc("CommandExecutionError")]
    /\ pc' = [pc EXCEPT ![p] = "done"]
    /\ UNCHANGED <<fs, old, new>>

\* @salt.utils.decorators.which(exe): the executable is not on the PATH and
\* the decorator raises before the function body runs
WhichRaises(p, exe, arg) ==
    /\ pc[p] = "idle"
    /\ op' = [op EXCEPT ![p] = exe]
    /\ args' = [args EXCEPT ![p] = Str(arg)]
    /\ res' = [res EXCEPT ![p] = Exc("CommandNotFoundError")]
    /\ ret' = [ret EXCEPT ![p] = Exc("CommandNotFoundError")]
    /\ pc' = [pc EXCEPT ![p] = "raised"]
    /\ UNCHANGED <<fs, command, old, new, calls>>

a2enmod(p, mod) ==
    \/ RetcodeReturns(p, "a2enmod", mod, "Apache2 Enable Mod", "Mod")
    \/ RetcodeRaises(p, "a2enmod", mod)

a2dismod(p, mod) ==
    \/ RetcodeReturns(p, "a2dismod", mod, "Apache2 Disable Mod", "Mod")
    \/ RetcodeRaises(p, "a2dismod", mod)

a2enconf(p, conf) ==
    \/ WhichRaises(p, "a2enconf", conf)
    \/ RetcodeReturns(p, "a2enconf", conf, "Apache2 Enable Conf", "Conf")
    \/ RetcodeRaises(p, "a2enconf", conf)

a2disconf(p, conf) ==
    \/ WhichRaises(p, "a2disconf", conf)
    \/ RetcodeReturns(p, "a2disconf", conf, "Apache2 Disable Conf", "Conf")
    \/ RetcodeRaises(p, "a2disconf", conf)

\* any symlinks and files in mods-enabled and conf-enabled
ModInit ==
    /\ avail = {}
    /\ \E m \in [Names -> Kinds], c \in [Names -> Kinds] :
          enabledDir = [x \in EnabledDirs |->
                          IF x = MODS_ENABLED_DIR THEN m
                          ELSE IF x = CONF_ENABLED_DIR THEN c
                          ELSE EmptyDir]
    /\ IdleClients

ModNext ==
    \/ \E mod \in ArgNames : a2enmod("p1", mod)
    \/ \E mod \in ArgNames : a2dismod("p1", mod)
    \/ \E conf \in ArgNames : a2enconf("p1", conf)
    \/ \E conf \in ArgNames : a2disconf("p1", conf)
    \/ Return("p1")

ModSpec == ModInit /\ [][ModNext]_vars

\* ------------------------------------------------------ standalone queries
Query(p, fn, arg, value) ==
    /\ pc[p] = "idle"
    /\ op' = [op EXCEPT ![p] = fn]
    /\ args' = [args EXCEPT ![p] = arg]
    /\ ret' = [ret EXCEPT ![p] = value]
    /\ pc' = [pc EXCEPT ![p] = "done"]
    /\ UNCHANGED <<fs, command, old, res, new, calls>>

CallCheckSiteEnabled(p, site) ==
    Query(p, "check_site_enabled", Str(site), [bool |-> check_site_enabled(site)])

CallListSites(p) == Query(p, "list_sites", None, list_sites)

CallCheckModEnabled(p, mod) ==
    Query(p, "check_mod_enabled", Str(mod), [bool |-> check_mod_enabled(mod)])

CallCheckConfEnabled(p, conf) ==
    Query(p, "check_conf_enabled", Str(conf), [bool |-> check_conf_enabled(conf)])

\* any sites-available and any content of sites-enabled; in mods-enabled and
\* conf-enabled any content under the names "default" and "000-default"
QueryInit ==
    /\ avail \in SUBSET Names
    /\ \E s \in [Names -> Kinds],
          m \in [Names -> Kinds], c \in [Names -> Kinds] :
          /\ \A e \in {"errors", "000-errors"} : m[e] = "none" /\ c[e] = "none"
          /\ enabledDir = [x \in EnabledDirs |->
                              IF x = SITE_ENABLED_DIR THEN s
                              ELSE IF x = MODS_ENABLED_DIR THEN m
                              ELSE c]
    /\ IdleClients

QueryNext ==
    \/ \E site \in Names : CallCheckSiteEnabled("p1", site)
    \/ CallListSites("p1")
    \/ \E mod \in Names : CallCheckModEnabled("p1", mod)
    \/ \E conf \in Names : CallCheckConfEnabled("p1", conf)
    \/ Return("p1")

QuerySpec == QueryInit /\ [][QueryNext]_vars

\* ------------------------------------------------------ concurrent callers
\* two clients toggle sites at the same time; every site is available and
\* none is enabled at the start
ConcInit ==
    /\ avail = ArgNames
    /\ enabledDir = [x \in EnabledDirs |-> EmptyDir]
    /\ IdleClients

ConcNext ==
    \E p \in Procs :
        \/ \E n \in ArgNames : a2ensite(p, Str(n), None)
        \/ \E n \in ArgNames : a2dissite(p, Str(n), None)
        \/ RunAll(p)
        \/ RunAllFails(p)
        \/ SiteToggleFinish(p)
        \/ Return(p)

ConcSpec == ConcInit /\ [][ConcNext]_vars

\* ------------------------------------------------- properties: site toggles
SiteToggles == {"a2ensite", "a2dissite"}
SiteDone(p) == op[p] \in SiteToggles /\ pc[p] = "done"
\* the before/after pair a changed site must be reported with
Pair(p, name) == [old |-> Lookup(old[p], name), new |-> Lookup(new[p], name)]
Observed(p) == DOMAIN old[p] \cup DOMAIN new[p]
ChangedSites(p) == { n \in Observed(p) : Lookup(old[p], n) # Lookup(new[p], n) }
HasErrorText(p) ==
    "errors" \in DOMAIN ret[p] /\ ret[p]["errors"] = Str(res[p].stderr)

\* C1: after a site toggle the returned mapping has a site name as key if and
\* only if the site's state differs between the before and the after
\* snapshot, and the entry is exactly that before/after pair.
C1_DiffExact ==
    \A p \in Procs : SiteDone(p) =>
        \A name \in Observed(p) :
            /\ name \in DOMAIN ret[p] <=> name \in ChangedSites(p)
            /\ name \in DOMAIN ret[p] => ret[p][name] = Pair(p, name)

\* C2: the result carries stderr as its error text exactly when the exit code
\* is non-zero, and then the diff of every changed site is still returned.
C2_ErrorIffNonZero ==
    \A p \in Procs : SiteDone(p) =>
        /\ res[p].retcode # 0 <=> HasErrorText(p)
        /\ res[p].retcode # 0 =>
              \A name \in ChangedSites(p) :
                  name \in DOMAIN ret[p] /\ ret[p][name] = Pair(p, name)

\* C10: error text and diff entries never overwrite each other: whatever the
\* site names are, the pair of every changed site is in the returned record,
\* next to the stderr text when the command failed.
C10_NoOverwrite ==
    \A p \in Procs : SiteDone(p) =>
        /\ \A name \in ChangedSites(p) :
              name \in DOMAIN ret[p] /\ ret[p][name] = Pair(p, name)
        /\ res[p].retcode # 0 => HasErrorText(p)

ObserveCall == [fn |-> "list_sites"]
RunCall(p) == [fn |-> "cmd.run_all", cmd |-> command[p]]

\* C8: a site toggle makes one before observation, then exactly one command
\* invocation, then one after observation; when the command cannot be started
\* the error leaves the toggle with the before observation taken and no after
\* observation made.
C8_Sequence ==
    \A p \in Procs : op[p] \in SiteToggles =>
        /\ pc[p] = "observed" => calls[p] = <<ObserveCall>>
        /\ pc[p] = "ran" => calls[p] = <<ObserveCall, RunCall(p)>>
        /\ pc[p] = "done" =>
              /\ calls[p] = <<ObserveCall, RunCall(p), ObserveCall>>
              /\ "retcode" \in DOMAIN res[p]
        /\ pc[p] = "raised" =>
              /\ calls[p] = <<ObserveCall, RunCall(p)>>
              /\ new[p] = None
              /\ "exc" \in DOMAIN ret[p]

C8_Witness ==
    /\ SiteDone("p1") /\ res["p1"].retcode # 0
    /\ Len(calls["p1"]) = 3 /\ old["p1"] # new["p1"]

\* the argument list the claim prescribes, from the call's arguments
ExpectedCommand(p) ==
    LET a == args[p]
        first == IF "str" \in DOMAIN a.name /\ a.name.str # ""
                 THEN <<a.name.str>> ELSE <<>>
        rest == IF "list" \in DOMAIN a.sites THEN a.sites.list ELSE <<>>
    IN  <<op[p]>> \o first \o rest

\* C9: the argument list handed to the command runner is the executable, then
\* the primary name when one is given, then each element of the sites list in
\* order, each as its own element; with neither it is the bare executable.
C9_ArgumentList ==
    \A p \in Procs : op[p] \in SiteToggles =>
        /\ command[p] = ExpectedCommand(p)
        /\ Len(command[p]) = Len(ExpectedCommand(p))
        /\ pc[p] \in {"ran", "done", "raised"} =>
              calls[p][2] = [fn |-> "cmd.run_all", cmd |-> ExpectedCommand(p)]

C9_Witness ==
    /\ pc["p1"] = "ran" /\ op["p1"] = "a2dissite"
    /\ args["p1"] = [name |-> Str("default"),
                     sites |-> List(<<"errors", "default">>)]
    /\ calls["p1"][2].cmd = <<"a2dissite", "default", "errors", "default">>

\* ------------------------------------- properties: single-artifact toggles
SingleToggles == {"a2enmod", "a2dismod", "a2enconf", "a2disconf"}
Noun(exe) == IF exe \in {"a2enmod", "a2dismod"} THEN "Mod" ELSE "Conf"

\* the status the claim prescribes for a verb and an exit code
ExpectedStatus(exe, arg, code) ==
    IF exe \in {"a2enmod", "a2enconf"}
    THEN CASE code = 0 -> Str(Noun(exe) \o " " \o arg \o " enabled")
           [] code = 1 -> Str(Noun(exe) \o " " \o arg \o " Not found")
           [] OTHER -> PyInt(code)
    ELSE CASE code = 0 -> Str(Noun(exe) \o " " \o arg \o " disabled")
           [] code = 256 -> Str(Noun(exe) \o " " \o arg \o " Not found")
           [] OTHER -> PyInt(code)

\* C3: the status of a single-artifact toggle depends only on verb and exit
\* code: enable 0 Enabled, 1 NotFound; disable 0 Disabled, 256 NotFound; every
\* other code is returned as itself; the same for mods and confs; a non-zero
\* code is returned, never raised.
C3_Classifier ==
    \A p \in Procs :
        (op[p] \in SingleToggles /\ "int" \in DOMAIN res[p]) =>
            /\ pc[p] = "done"
            /\ DOMAIN ret[p] = {"Name", Noun(op[p]), "Status"}
            /\ ret[p]["Status"] = ExpectedStatus(op[p], args[p].str, res[p].int)

C3_Witness ==
    /\ pc["p1"] = "done" /\ op["p1"] = "a2dismod"
    /\ res["p1"] = PyInt(1)
    /\ ret["p1"]["Status"] = PyInt(1)

\* C4: when the external command cannot be started, a single-artifact toggle
\* ends with the error raised to the caller, not with a normal return value.
C4_StartErrorRaised ==
    \A p \in Procs :
        (op[p] \in SingleToggles /\ "exc" \in DOMAIN res[p]) =>
            pc[p] = "raised"

\* ------------------------------------------------------ properties: queries
Kind(dir, e) == enabledDir[dir][e]
QueryDone(p, fn) == pc[p] = "done" /\ op[p] = fn

\* enabled state of a site as the claim words it, straight from the directory
SiteLinked(name) ==
    \/ Kind(SITE_ENABLED_DIR, name) = "link"
    \/ name = "default" /\ Kind(SITE_ENABLED_DIR, "000-default") = "link"

\* C5: check_site_enabled(name) is true iff sites-enabled/name is a symlink
\* or name is "default" and sites-enabled/000-default is a symlink; the
\* prefixed entry counts for no other name; for mods and confs only the plain
\* symlink counts.
C5_Enabled ==
    \A p \in Procs :
        /\ QueryDone(p, "check_site_enabled") =>
              (ret[p].bool <=> SiteLinked(args[p].str))
        /\ QueryDone(p, "check_mod_enabled") =>
              (ret[p].bool <=> Kind(MODS_ENABLED_DIR, args[p].str) = "link")
        /\ QueryDone(p, "check_conf_enabled") =>
              (ret[p].bool <=> Kind(CONF_ENABLED_DIR, args[p].str) = "link")

C5_Witness ==
    /\ QueryDone("p1", "check_site_enabled") /\ args["p1"] = Str("default")
    /\ Kind(SITE_ENABLED_DIR, "default") = "file"
    /\ Kind(SITE_ENABLED_DIR, "000-default") = "link"
    /\ Kind(SITE_ENABLED_DIR, "000-errors") = "link"
    /\ ret["p1"].bool

\* C6: the keys of list_sites() are exactly the entries of sites-available,
\* whatever sites-enabled holds, and each value is the site's enabled state.
C6_ListSitesKeys ==
    \A p \in Procs : QueryDone(p, "list_sites") =>
        /\ DOMAIN ret[p] = avail
        /\ \A k \in avail : ret[p][k] <=> SiteLinked(k)

C6_Witness ==
    /\ QueryDone("p1", "list_sites") /\ avail = {"errors", "default"}
    /\ Kind(SITE_ENABLED_DIR, "000-errors") = "link"
    /\ Kind(SITE_ENABLED_DIR, "000-default") = "link"
    /\ ret["p1"] = [errors |-> FALSE, default |-> TRUE]

\* ------------------------------------------------- properties: concurrency
InFlight(p) == op[p] \in SiteToggles /\ pc[p] \in {"observed", "ran"}

\* C7: at most one site reconciliation is in flight at any time: no toggle is
\* between its before and its after observation while another one is.
C7_AtMostOneInFlight ==
    Cardinality({ p \in Procs : InFlight(p) }) <= 1

====
